---- MODULE Spec2Model ----
(***************************************************************************)
(* Model of the contructor_derive attribute expander (src/src/lib.rs).     *)
(*                                                                         *)
(* One compilation is a run: the expander binary has been built for the   *)
(* host, the crate being compiled is built for the target, and the        *)
(* compiler invokes #[constructor] / #[destructor] any number of times.   *)
(* A panic of the expander is an outcome with ok = FALSE and no tokens.   *)
(***************************************************************************)
EXTENDS Integers, Sequences, FiniteSets, TLC

VARIABLES host, target, prev, cur

vars == <<host, target, prev, cur>>

\* Largest integer literal written as annotation argument.
MaxPriority == 1

\* target_os values of the build; "freebsd" stands for every other one.
Platforms == {"linux", "macos", "windows", "freebsd"}

\* Identifiers of annotated functions.
FnNames == {"f", "f_ctor", "f_dtor"}

\* The annotated item as the compiler hands it over: a function or not.
Items ==
    [kind : {"Fn"}, ident : FnNames, body : {"{ RAN = true }"}]
    \cup [kind : {"Struct", "Const"}, ident : {"T"}, body : {""}]

\* The annotation argument tokens: nothing, an integer literal, another
\* expression (path, string / float literal, negated integer, binary
\* expression), or tokens that are no expression at all.
EmptyArgs == [kind |-> "Empty", value |-> 0]

Args ==
    {EmptyArgs}
    \cup [kind : {"Int"}, value : 0..MaxPriority]
    \cup [kind : {"Ident", "Str", "Float", "Neg", "Binary", "Garbage"}, value : {1}]

\* Option<u64>
None == [some |-> FALSE, n |-> 0]
Some(n) == [some |-> TRUE, n |-> n]

\* Outcome of one macro invocation: tokens returned, or a panic.
Returned(tokens, trace) ==
    [ok |-> TRUE, err |-> "none", fragment |-> tokens, trace |-> trace]

Panicked(err, trace) ==
    [ok |-> FALSE, err |-> err, fragment |-> << >>, trace |-> trace]

\* cfg!(target_os = ...) inside the expander is resolved when the expander
\* itself is compiled, and a proc-macro crate is compiled for the host.
cfg_target_os == host

\* syn::parse::<Expr>(args): which expression the tokens form, if any.
syn_parse_Expr(args) ==
    CASE args.kind = "Int"    -> [ok |-> TRUE, expr |-> "Lit", lit |-> "Int", value |-> args.value]
      [] args.kind = "Str"    -> [ok |-> TRUE, expr |-> "Lit", lit |-> "Str", value |-> 0]
      [] args.kind = "Float"  -> [ok |-> TRUE, expr |-> "Lit", lit |-> "Float", value |-> 0]
      [] args.kind = "Ident"  -> [ok |-> TRUE, expr |-> "Path", lit |-> "", value |-> 0]
      [] args.kind = "Neg"    -> [ok |-> TRUE, expr |-> "Unary", lit |-> "", value |-> 0]
      [] args.kind = "Binary" -> [ok |-> TRUE, expr |-> "Binary", lit |-> "", value |-> 0]
      [] OTHER                -> [ok |-> FALSE, expr |-> "", lit |-> "", value |-> 0]

parse_priority_strict(args) ==
    IF args.kind # "Empty"
    THEN LET expr == syn_parse_Expr(args) IN
         IF expr.ok /\ expr.expr = "Lit" /\ expr.lit = "Int"
         THEN [panic |-> FALSE, value |-> Some(expr.value)]
         ELSE [panic |-> TRUE, value |-> None]
    ELSE [panic |-> FALSE, value |-> None]

parse_priority(args) ==
    IF args.kind # "Empty"
    THEN LET expr == syn_parse_Expr(args) IN
         IF ~expr.ok
         THEN [panic |-> TRUE, value |-> None]
         ELSE IF expr.expr = "Lit" /\ expr.lit = "Int"
              THEN [panic |-> FALSE, value |-> Some(expr.value)]
              ELSE [panic |-> FALSE, value |-> None]
    ELSE [panic |-> FALSE, value |-> None]

\* The static declaration both generators emit inside the hidden module.
static_decl(func_name, section) ==
    [kind |-> "Static", ident |-> func_name, no_mangle |-> TRUE,
     link_section |-> section, value |-> <<"super", func_name>>]

\* quote!{ #func  #[doc(hidden)] pub mod #mod_name { #ctor } }
quote_fragment(func, mod_name, ctor) ==
    << func,
       [kind |-> "Mod", ident |-> mod_name, doc_hidden |-> TRUE, items |-> <<ctor>>] >>

ctor_section_fallback(os) ==
    IF os = "linux" THEN ".ctors"
    ELSE IF os = "macos" THEN "__DATA,__mod_init_func"
    ELSE IF os = "windows" THEN ".CRT$XCU"
    ELSE ".ctors"

ctor_section_swapped(os) ==
    IF os = "linux" THEN ".ctors"
    ELSE IF os = "macos" THEN ".ctors"
    ELSE IF os = "windows" THEN ".CRT$XCU"
    ELSE "unimplemented"

\* The if / else-if chain of gen_ctor; "unimplemented" is the panic branch.
ctor_section(os) ==
    IF os = "linux" THEN ".ctors"
    ELSE IF os = "macos" THEN "__DATA,__mod_init_func"
    ELSE IF os = "windows" THEN ".CRT$XCU"
    ELSE "unimplemented"

dtor_section_copied(os) ==
    IF os = "linux" THEN ".ctors"
    ELSE IF os = "macos" THEN "__DATA,__mod_term_func"
    ELSE IF os = "windows" THEN ".CRT$XPU"
    ELSE "unimplemented"

\* The if / else-if chain of gen_dtor.
dtor_section(os) ==
    IF os = "linux" THEN ".dtors"
    ELSE IF os = "macos" THEN "__DATA,__mod_term_func"
    ELSE IF os = "windows" THEN ".CRT$XPU"
    ELSE "unimplemented"

ctor_mod_name(ident) == ident \o "_ctor"

dtor_mod_name_copied(ident) == ident \o "_ctor"

dtor_mod_name(ident) == ident \o "_dtor"

gen_ctor_prio(func, priority) ==
    LET mod_name == ctor_mod_name(func.ident)
        func_name == func.ident
        section == ctor_section(cfg_target_os)
    IN  IF section = "unimplemented"
        THEN [panic |-> TRUE, tokens |-> << >>]
        ELSE [panic |-> FALSE,
              tokens |-> quote_fragment(func, mod_name,
                           static_decl(func_name,
                               IF priority.some /\ priority.n > 0
                               THEN section \o ".prio" ELSE section))]

gen_ctor_counted(func, priority) ==
    LET mod_name == IF cur.role = "constructor" /\ cur.item = func
                    THEN ctor_mod_name(func.ident) \o "_1"
                    ELSE ctor_mod_name(func.ident)
        func_name == func.ident
        section == ctor_section(cfg_target_os)
    IN  IF section = "unimplemented"
        THEN [panic |-> TRUE, tokens |-> << >>]
        ELSE [panic |-> FALSE,
              tokens |-> quote_fragment(func, mod_name, static_decl(func_name, section))]

gen_ctor(func, priority) ==
    LET mod_name == ctor_mod_name(func.ident)
        func_name == func.ident
        section == ctor_section(cfg_target_os)
    IN  IF section = "unimplemented"
        THEN [panic |-> TRUE, tokens |-> << >>]
        ELSE [panic |-> FALSE,
              tokens |-> quote_fragment(func, mod_name, static_decl(func_name, section))]

gen_dtor(func, priority) ==
    LET mod_name == dtor_mod_name(func.ident)
        func_name == func.ident
        section == dtor_section(cfg_target_os)
    IN  IF section = "unimplemented"
        THEN [panic |-> TRUE, tokens |-> << >>]
        ELSE [panic |-> FALSE,
              tokens |-> quote_fragment(func, mod_name, static_decl(func_name, section))]

constructor_args_first(args, input) ==
    LET priority == parse_priority(args) IN
    IF priority.panic
    THEN Panicked("InvalidPriority", <<"parse_priority">>)
    ELSE IF input.kind = "Fn"
         THEN LET g == gen_ctor(input, priority.value) IN
              IF g.panic
              THEN Panicked("UnsupportedPlatform", <<"parse_priority", "parse_item", "gen">>)
              ELSE Returned(g.tokens, <<"parse_priority", "parse_item", "gen">>)
         ELSE Panicked("UnsupportedTarget", <<"parse_priority", "parse_item">>)

constructor_passthrough(args, input) ==
    IF input.kind = "Fn"
    THEN LET priority == parse_priority(args) IN
         IF priority.panic
         THEN Panicked("InvalidPriority", <<"parse_item", "parse_priority">>)
         ELSE LET g == gen_ctor(input, priority.value) IN
              IF g.panic
              THEN Panicked("UnsupportedPlatform", <<"parse_item", "parse_priority", "gen">>)
              ELSE Returned(g.tokens, <<"parse_item", "parse_priority", "gen">>)
    ELSE Returned(<<input>>, <<"parse_item">>)

\* #[constructor]: the item is parsed and matched first, then the
\* arguments are parsed, then the fragment is generated.  The three panics
\* are: not a function (line 64), unwrap of the argument parse (line 84),
\* unimplemented!() (line 119).
constructor(args, input) ==
    IF input.kind = "Fn"
    THEN LET priority == parse_priority(args) IN
         IF priority.panic
         THEN Panicked("InvalidPriority", <<"parse_item", "parse_priority">>)
         ELSE LET g == gen_ctor(input, priority.value) IN
              IF g.panic
              THEN Panicked("UnsupportedPlatform", <<"parse_item", "parse_priority", "gen">>)
              ELSE Returned(g.tokens, <<"parse_item", "parse_priority", "gen">>)
    ELSE Panicked("UnsupportedTarget", <<"parse_item">>)

\* #[destructor]
destructor(args, input) ==
    IF input.kind = "Fn"
    THEN LET priority == parse_priority(args) IN
         IF priority.panic
         THEN Panicked("InvalidPriority", <<"parse_item", "parse_priority">>)
         ELSE LET g == gen_dtor(input, priority.value) IN
              IF g.panic
              THEN Panicked("UnsupportedPlatform", <<"parse_item", "parse_priority", "gen">>)
              ELSE Returned(g.tokens, <<"parse_item", "parse_priority", "gen">>)
    ELSE Panicked("UnsupportedTarget", <<"parse_item">>)

\* No invocation yet.
NoExpansion ==
    [role |-> "none", args |-> EmptyArgs,
     item |-> [kind |-> "None", ident |-> "", body |-> ""],
     out |-> Panicked("none", << >>)]

Init ==
    /\ host \in Platforms
    /\ target \in Platforms
    /\ prev = NoExpansion
    /\ cur = NoExpansion

\* The compiler expands one #[constructor(args)] on input.
ExpandConstructor(args, input) ==
    /\ cur' = [role |-> "constructor", args |-> args, item |-> input,
               out |-> constructor(args, input)]
    /\ prev' = cur
    /\ UNCHANGED <<host, target>>

\* The compiler expands one #[destructor(args)] on input.
ExpandDestructor(args, input) ==
    /\ cur' = [role |-> "destructor", args |-> args, item |-> input,
               out |-> destructor(args, input)]
    /\ prev' = cur
    /\ UNCHANGED <<host, target>>

Next ==
    \/ \E args \in Args, input \in Items : ExpandConstructor(args, input)
    \/ \E args \in Args, input \in Items : ExpandDestructor(args, input)

Spec == Init /\ [][Next]_vars

TypeOK ==
    /\ host \in Platforms
    /\ target \in Platforms
    /\ cur.role \in {"none", "constructor", "destructor"}
    /\ prev.role \in {"none", "constructor", "destructor"}

(***************************************************************************)
(* Properties                                                              *)
(***************************************************************************)

Supported(os) == os \in {"linux", "macos", "windows"}

\* The section table of the specification, section 4.1.
TableSection(role, os) ==
    CASE role = "constructor" /\ os = "linux"   -> ".ctors"
      [] role = "constructor" /\ os = "macos"   -> "__DATA,__mod_init_func"
      [] role = "constructor" /\ os = "windows" -> ".CRT$XCU"
      [] role = "destructor" /\ os = "linux"    -> ".dtors"
      [] role = "destructor" /\ os = "macos"    -> "__DATA,__mod_term_func"
      [] role = "destructor" /\ os = "windows"  -> ".CRT$XPU"
      [] OTHER                                  -> "no section"

\* tokens is the function func unchanged, followed by exactly one hidden
\* scope of the given name with exactly one static named like the function,
\* referring to it, in the given section.
WellFormed(tokens, func, scope, section) ==
    /\ Len(tokens) = 2
    /\ tokens[1] = func
    /\ tokens[2].kind = "Mod"
    /\ tokens[2].doc_hidden
    /\ tokens[2].ident = scope
    /\ Len(tokens[2].items) = 1
    /\ tokens[2].items[1].kind = "Static"
    /\ tokens[2].items[1].ident = func.ident
    /\ tokens[2].items[1].value = <<"super", func.ident>>
    /\ tokens[2].items[1].link_section = section

IsInvocation(e, role) == e.role = role /\ e.item.kind = "Fn"

\* C1: expand-constructor with no argument on a function, on a supported
\* platform (the one the expander's cfg! dispatch sees), succeeds and returns
\* the function unchanged followed by exactly one hidden scope <name>_ctor
\* holding one static named like the function, referring to it, in section
\* .ctors / __DATA,__mod_init_func / .CRT$XCU.
C1_CtorFragment ==
    (IsInvocation(cur, "constructor") /\ cur.args = EmptyArgs /\ Supported(host))
        => /\ cur.out.ok
           /\ WellFormed(cur.out.fragment, cur.item, cur.item.ident \o "_ctor",
                         TableSection("constructor", host))

C1_Witness ==
    /\ IsInvocation(cur, "constructor") /\ cur.args = EmptyArgs
    /\ host = "macos" /\ cur.item.ident = "f"
    /\ cur.out.ok
    /\ cur.out.fragment[2].items[1].link_section = "__DATA,__mod_init_func"

\* C2: expand-destructor with no argument on a function, on a supported
\* platform, succeeds and returns the function unchanged followed by exactly
\* one hidden scope <name>_dtor holding one static referring to the function
\* in section .dtors / __DATA,__mod_term_func / .CRT$XPU; apart from scope
\* name and section the fragment equals the constructor's fragment.
C2_DtorFragment ==
    (IsInvocation(cur, "destructor") /\ cur.args = EmptyArgs /\ Supported(host))
        => /\ cur.out.ok
           /\ WellFormed(cur.out.fragment, cur.item, cur.item.ident \o "_dtor",
                         TableSection("destructor", host))
           /\ LET c == constructor(cur.args, cur.item).fragment IN
              cur.out.fragment =
                 [c EXCEPT ![2].ident = cur.item.ident \o "_dtor",
                           ![2].items[1].link_section = TableSection("destructor", host)]

C2_Witness ==
    /\ IsInvocation(cur, "destructor") /\ cur.args = EmptyArgs
    /\ host = "windows" /\ cur.item.ident = "f"
    /\ cur.out.ok
    /\ cur.out.fragment[2].ident = "f_dtor"
    /\ cur.out.fragment[2].items[1].link_section = ".CRT$XPU"

NotIntLiteral(args) == args.kind \notin {"Empty", "Int"}

IsExprNotInt(args) == args.kind \in {"Ident", "Str", "Float", "Neg", "Binary"}

Expand(role, args, input) ==
    IF role = "constructor" THEN constructor(args, input) ELSE destructor(args, input)

C4_TargetSection ==
    (cur.role # "none" /\ cur.out.ok)
        => cur.out.fragment[2].items[1].link_section = TableSection(cur.role, target)

\* C5: a non-function item fails with UnsupportedTarget and nothing is
\* returned, whatever the arguments and the platform are.
C5_NonFunction ==
    (cur.role # "none" /\ cur.item.kind # "Fn")
        => (~cur.out.ok /\ cur.out.err = "UnsupportedTarget"
            /\ cur.out.fragment = << >>)

C5_Witness ==
    /\ cur.role = "constructor" /\ cur.item.kind = "Struct"
    /\ cur.args.kind = "Int" /\ host = "windows"
    /\ cur.out.err = "UnsupportedTarget"
    /\ prev.role = "destructor" /\ prev.item.kind = "Const"
    /\ prev.out.err = "UnsupportedTarget"

\* C6: with an integer literal N as argument the expansion of a function on
\* a supported platform succeeds and returns exactly the fragment of the
\* expansion with no argument; N is not in the fragment.
C6_PriorityInert ==
    (cur.role # "none" /\ cur.item.kind = "Fn" /\ cur.args.kind = "Int"
      /\ Supported(host))
        => /\ cur.out.ok
           /\ cur.out.fragment = Expand(cur.role, EmptyArgs, cur.item).fragment
           /\ \A n \in 0..MaxPriority :
                cur.out.fragment = Expand(cur.role, [kind |-> "Int", value |-> n], cur.item).fragment

C6_Witness ==
    /\ cur.role = "constructor" /\ cur.item.kind = "Fn"
    /\ cur.args = [kind |-> "Int", value |-> MaxPriority]
    /\ host = "windows" /\ cur.out.ok
    /\ cur.out.fragment[2].items[1].link_section = ".CRT$XCU"

\* C7: on a platform other than Linux, Apple, Windows both expansions of a
\* function (with arguments that parse) fail with UnsupportedPlatform and
\* return nothing.
C7_UnsupportedPlatform ==
    (cur.role # "none" /\ cur.item.kind = "Fn" /\ cur.args.kind # "Garbage"
      /\ ~Supported(host))
        => (~cur.out.ok /\ cur.out.err = "UnsupportedPlatform"
            /\ cur.out.fragment = << >>)

C7_Witness ==
    /\ cur.role = "destructor" /\ cur.item.kind = "Fn" /\ cur.args = EmptyArgs
    /\ host = "freebsd"
    /\ cur.out.err = "UnsupportedPlatform"
    /\ prev.role = "constructor" /\ prev.item.kind = "Fn"
    /\ prev.out.err = "UnsupportedPlatform"

ScopeName(e) == e.out.fragment[2].ident

\* C8: two expansions derive the same hidden-scope name exactly when both
\* the function name and the role are equal, also for functions whose own
\* name ends in _ctor or _dtor.
C8_ScopeNameInjective ==
    (prev.out.ok /\ cur.out.ok)
        => (ScopeName(prev) = ScopeName(cur)
              <=> (prev.item.ident = cur.item.ident /\ prev.role = cur.role))

C8_Witness ==
    /\ prev.out.ok /\ cur.out.ok
    /\ prev.role = "constructor" /\ prev.item.ident = "f_dtor"
    /\ cur.role = "destructor" /\ cur.item.ident = "f_ctor"
    /\ ScopeName(prev) = "f_dtor_ctor"
    /\ ScopeName(cur) = "f_ctor_dtor"

C10_CheckOrder ==
    (cur.role # "none")
        => /\ cur.item.kind # "Fn"
                => (cur.out.err = "UnsupportedTarget"
                    /\ cur.out.trace = <<"parse_item">>)
           /\ (cur.item.kind = "Fn" /\ cur.args.kind = "Garbage")
                => (cur.out.err = "InvalidPriority"
                    /\ cur.out.trace = <<"parse_item", "parse_priority">>)
           /\ (cur.item.kind = "Fn" /\ cur.args.kind # "Garbage")
                => cur.out.trace = <<"parse_item", "parse_priority", "gen">>

C10_Witness ==
    /\ host = "freebsd"
    /\ prev.role = "constructor" /\ prev.item.kind = "Struct"
    /\ prev.args.kind = "Garbage" /\ prev.out.err = "UnsupportedTarget"
    /\ cur.role = "constructor" /\ cur.item.kind = "Fn"
    /\ cur.args.kind = "Garbage" /\ cur.out.err = "InvalidPriority"
====
